---- MODULE Spec2Model ----
(***************************************************************************)
(* Carosync: one Ingestion Engine (TelegramChannelSync, src/src/index.ts)  *)
(* writes Post Record files and the Sync Status Ledger into a storage      *)
(* directory; Platform Syncers (EitaaSync in src/src/index.ts, BaleSync in *)
(* src/src/bale-sync.ts) poll that directory, relay the records and keep a *)
(* Processed-Set Ledger each.  Every await of the source is a step         *)
(* boundary of the model; the callbacks of setInterval are independent     *)
(* activations, so several watch cycles of one syncer may be in flight.    *)
(***************************************************************************)
EXTENDS Integers, Sequences, FiniteSets, TLC

\* ------------------------------------------------------------------ bounds
MaxId == 2          \* source message ids are 1..MaxId
MaxEdit == 1        \* a source message is edited at most MaxEdit times
MaxCycles == 2      \* watch-cycle activations of one syncer in flight at once
NumPosts == 3       \* records in the store of the ordering specification
PassLen == 3        \* messages one getMessages call returns (SpecPass)
GroupLen == 4       \* messages of one media group (SpecGroup)

\* ------------------------------------------------------- program constants
MaxWaitTime == 5    \* waitForTelegramSync: maxWaitTime, in minutes
NoDate == -1        \* PostData.date / editDate absent (undefined)
NoMsgId == 0        \* ProcessedPostMetadata.baleMessageId absent (undefined)

Ids == 1..MaxId
\* ids of the records of the ordering specification (SpecOrder)
OrderIds == 1..NumPosts
CallIds == Ids \cup OrderIds
Platforms == {"eitaa", "bale"}
Slots == 1..MaxCycles

\* Source timestamps of the messages of the channel: id 1, 2, 3 carry the
\* dates 100, 300, 200, so file order and date order differ.
SrcDate(i) == CASE i = 1 -> 100 [] i = 2 -> 300 [] i = 3 -> 200 [] OTHER -> 100 * i
\* editDate of a message after its k-th edit (absent before the first).
SrcEditDate(k) == IF k = 0 THEN NoDate ELSE 1000 * k
\* Message 2 carries one media item, the others are text-only.
SrcHasMedia(i) == i = 2
SrcHasText(i) == TRUE

VARIABLES
    src,        \* the source channel: per id "none" | "live" | "deleted", and edits
    store,      \* Record Store: the set of post_<id>.json files (their contents)
    media,      \* ids whose media/<id>/ directory holds the downloaded files
    status,     \* telegram_sync_status.json: "absent" or its status field
    eng,        \* Ingestion Engine process: pc and the fetched messages left
    phase,      \* per syncer: position in start()
    elapsed,    \* per syncer: minutes since waitForTelegramSync took startTime
    mem,        \* per syncer: processedPosts (in memory)
    disk,       \* per syncer: <platform>_processed.json
    cycles,     \* per syncer and slot: a pass in flight (catch-up or watch cycle)
    calls,      \* per syncer and id: adapter calls issued (history, saturating)
    run         \* per syncer: facts about the current process run (history)

vars == <<src, store, media, status, eng, phase, elapsed, mem, disk, cycles, calls, run>>

\* ------------------------------------------------------------- Post Records
\* PostData (index.ts:13-25, bale-sync.ts:13-25).  media is the number of
\* media paths of the record.
Post(i, d, e, del, txt, m) ==
    [id |-> i, date |-> d, editDate |-> e, deleted |-> del, text |-> txt, media |-> m]

HasFile(st, i) == \E r \in st : r.id = i
FileOf(st, i) == CHOOSE r \in st : r.id = i
\* savePostData: fs.writeFile overwrites the file of data.id.
SavePostData(st, r) == {x \in st : x.id # r.id} \cup {r}
\* Variant: the syncer rewrites the record file as deleted instead of
\* removing it.
RewriteDeleted(st, i) == {IF x.id = i THEN [x EXCEPT !.deleted = TRUE] ELSE x : x \in st}
Unlink(st, i) == {x \in st : x.id # i}

\* ---------------------------------------------------------------- sorting
\* const dateA = a.date || 0
DateKey(r) == IF r.date = NoDate THEN 0 ELSE r.date

\* posts.sort((a, b) => dateA - dateB): a stable sort, ascending by DateKey.
RECURSIVE InsertByDate(_, _)
InsertByDate(r, s) ==
    IF s = <<>> THEN <<r>>
    ELSE IF DateKey(r) - DateKey(Head(s)) < 0 THEN <<r>> \o s
    ELSE <<Head(s)>> \o InsertByDate(r, Tail(s))

RECURSIVE SortByDate(_)
SortByDate(s) ==
    IF s = <<>> THEN <<>>
    ELSE InsertByDate(s[Len(s)], SortByDate(SubSeq(s, 1, Len(s) - 1)))

\* Every order in which readdir may enumerate the files of st.
Enumerations(st) ==
    {s \in [1..Cardinality(st) -> st] : \A a, b \in 1..Cardinality(st) : a # b => s[a] # s[b]}

\* A loader that keeps the enumeration order (the ordering rests on the sort).
LoadUnsorted(files) == files
\* loadAndSortPosts over one enumeration of the readable files.
LoadAndSortPosts(files) == SortByDate(files)


\* ------------------------------------------------------ Sync Status Ledger
\* Variants of the status read: one that never reports a pass, one whose
\* catch reports a pass for a missing or unparsable file.
NeverInProgress(st) == FALSE
FailClosed(st) == st \in {"absent", "truncated", "in_progress"}
\* isTelegramSyncInProgress: readFile + JSON.parse + status === 'in_progress';
\* the catch returns false for a missing or unparsable file.
IsTelegramSyncInProgress(st) ==
    IF st \in {"absent", "truncated"} THEN FALSE ELSE st = "in_progress"

\* --------------------------------------------------- Processed-Set Ledgers
\* ProcessedPostMetadata keyed by id; Eitaa keeps a bare set of ids.
Entry(i, d, e, del, m) ==
    [id |-> i, date |-> d, editDate |-> e, deleted |-> del, msgId |-> m]
EitaaEntry(i) == Entry(i, NoDate, NoDate, FALSE, NoMsgId)

Has(led, i) == \E x \in led : x.id = i
Get(led, i) == CHOOSE x \in led : x.id = i
\* processedPosts.set(id, meta) / processedPosts.add(id)
SetEntry(led, x) == {y \in led : y.id # x.id} \cup {x}

NoFile == [ok |-> FALSE, entries |-> {}]
\* loadProcessedPosts: a missing or unparsable file leaves the ledger empty.
LoadProcessedPosts(file) == IF file.ok THEN file.entries ELSE {}
\* saveProcessedPosts: writeFile of the whole in-memory ledger; an error is
\* logged and swallowed, the file is then left as it was.
SaveProcessedPosts(file, led, ok) == IF ok THEN [ok |-> TRUE, entries |-> led] ELSE file

\* message_id the platform assigns to the post sent for record i.
MsgIdOf(i) == 10 + i

\* ----------------------------------------------------------------- cycles
\* One activation of a pass.  blind, sent, stale and unread are history:
\* the status read when it began, the date keys of its sends, the records
\* it has passed over because their id was in the ledger already, and the
\* ids of the files it could not read.
Idle == [kind |-> "idle", at |-> "idle", blind |-> FALSE, posts |-> <<>>,
         pos |-> 0, op |-> "none", msg |-> NoMsgId, sent |-> <<>>,
         stale |-> {}, unread |-> {}]
\* blind: the pass starts although the status read in_progress.
NewPass(k, st) ==
    [Idle EXCEPT !.kind = k, !.at = "load", !.blind = (st = "in_progress")]

FreeSlots(p) == {s \in Slots : cycles[p][s].kind = "idle"}
AllIdle == [s \in Slots |-> Idle]

Sat(n) == IF n >= 2 THEN 2 ELSE n + 1
NoCalls == [sends |-> 0, deletes |-> 0, edits |-> 0]
\* failed: the id of the record whose call raised in this process run (0:
\* none); missed: the ids of the files some pass of this run could not read;
\* boot: what the main module found before start() ("none": not yet run);
\* prev: the id whose call raised in the process run before this one.
FreshRun == [failed |-> 0, skipped |-> FALSE, missed |-> {}, boot |-> "none",
             prev |-> 0]

\* ------------------------------------------------------- syncer: start()
\* new EitaaSync / new BaleSync in a fresh process, after the previous exited.
Restart(p) ==
    /\ phase[p] = "exited"
    /\ phase' = [phase EXCEPT ![p] = "init"]
    /\ mem' = [mem EXCEPT ![p] = {}]
    /\ run' = [run EXCEPT ![p] = [FreshRun EXCEPT !.prev = run[p].failed]]
    /\ UNCHANGED <<src, store, media, status, eng, elapsed, disk, cycles, calls>>

\* start(): loadProcessedPosts, then waitForTelegramSync takes startTime.
Start(p) ==
    /\ phase[p] = "init"
    /\ mem' = [mem EXCEPT ![p] = LoadProcessedPosts(disk[p])]
    /\ phase' = [phase EXCEPT ![p] = "waiting"]
    /\ elapsed' = [elapsed EXCEPT ![p] = 0]
    /\ UNCHANGED <<src, store, media, status, eng, disk, cycles, calls, run>>

\* Variants of the expiry test: a wait without bound, a wait of no length.
NeverExpired(e) == FALSE
ExpiredAtOnce(e) == TRUE
\* Date.now() - startTime > maxWaitTime
WaitExpired(e) == e > MaxWaitTime

\* One iteration of the while loop of waitForTelegramSync; leaving the loop
\* enters syncExistingPosts.
WaitPoll(p) ==
    /\ phase[p] = "waiting"
    /\ IF IsTelegramSyncInProgress(status) /\ ~WaitExpired(elapsed[p])
       THEN UNCHANGED <<phase, cycles>>
       ELSE /\ phase' = [phase EXCEPT ![p] = "catchup"]
            /\ cycles' = [cycles EXCEPT ![p][1] = NewPass("initial", status)]
    /\ UNCHANGED <<src, store, media, status, eng, elapsed, mem, disk, calls, run>>

\* Wall-clock time passes while some syncer sleeps in the wait loop; past
\* the bound the value no longer matters and is kept at MaxWaitTime + 1.
TimePasses ==
    /\ \E p \in Platforms : phase[p] = "waiting" /\ elapsed[p] <= MaxWaitTime
    /\ elapsed' = [p \in Platforms |->
                      IF phase[p] = "waiting" /\ elapsed[p] <= MaxWaitTime
                      THEN elapsed[p] + 1 ELSE elapsed[p]]
    /\ UNCHANGED <<src, store, media, status, eng, phase, mem, disk, cycles, calls, run>>


\* ------------------------------------------------- syncer: passes, cycles
Running(p) == phase[p] \in {"catchup", "watching", "stopping"}
Cur(p, s) == cycles[p][s].posts[cycles[p][s].pos]
Advance(c) == [c EXCEPT !.at = "pick", !.pos = c.pos + 1, !.op = "none", !.msg = NoMsgId]

\* A callback of setInterval: isTelegramSyncInProgress first, return when it
\* is true.  A tick finds a free slot as long as fewer than MaxCycles
\* activations are suspended.
Tick(p) ==
    /\ phase[p] = "watching"
    /\ FreeSlots(p) # {}
    /\ LET s == CHOOSE x \in FreeSlots(p) : \A y \in FreeSlots(p) : x <= y IN
       IF IsTelegramSyncInProgress(status)
       THEN /\ run' = [run EXCEPT ![p].skipped = TRUE]
            /\ UNCHANGED cycles
       ELSE /\ run' = [run EXCEPT ![p].skipped = FALSE]
            /\ cycles' = [cycles EXCEPT ![p][s] = NewPass("watch", status)]
    /\ UNCHANGED <<src, store, media, status, eng, phase, elapsed, mem, disk, calls>>

\* EitaaSync.startWatching filters the loaded posts before its loop.
\* (Variant: a filter that does not look at the deleted flag.)
NotInLedger(led, r) == ~Has(led, r.id)
Unprocessed(led, r) == ~r.deleted /\ ~Has(led, r.id)

\* loadPostData returns null for a file that cannot be read or parsed and
\* loadAndSortPosts leaves it out.  (Variant: the file is taken anyway.)
ReadAnyway(files, bad) == files
Readable(files, bad) == {r \in files : r.id \notin bad}

\* readdir, loadAndSortPosts (and, in an Eitaa watch cycle, the filter);
\* bad: the ids whose file cannot be read or parsed at this moment.
LoadSkipping(p, s, bad) ==
    /\ Running(p)
    /\ cycles[p][s].at = "load"
    /\ \E order \in Enumerations(Readable(store, bad)) :
         LET sorted == LoadAndSortPosts(order)
             Keep(r) == Unprocessed(mem[p], r)
             posts == IF p = "eitaa" /\ cycles[p][s].kind = "watch"
                      THEN SelectSeq(sorted, Keep) ELSE sorted
             old == IF p = "eitaa" /\ cycles[p][s].kind = "watch"
                    THEN {r \in store : Has(mem[p], r.id)} ELSE {}
         IN cycles' = [cycles EXCEPT ![p][s] =
                          [@ EXCEPT !.at = "pick", !.posts = posts, !.pos = 1,
                                    !.stale = old,
                                    !.unread = {r.id : r \in store} \cap bad]]
    /\ run' = [run EXCEPT ![p].missed = @ \cup ({r.id : r \in store} \cap bad)]
    /\ UNCHANGED <<src, store, media, status, eng, phase, elapsed, mem, disk, calls>>

\* A pass that finds every file readable.
Load(p, s) == LoadSkipping(p, s, {})

\* What the loop body does with record r, given the ledger as it is when
\* the loop reaches r:
\*   syncExistingPosts (both): sync iff not deleted and not in the ledger;
\*   EitaaSync watch: every post of the filtered list is synced;
\*   BaleSync watch: the reconciliation of startWatching.
Decide(p, kind, led, r) ==
    IF kind = "initial" THEN (IF Unprocessed(led, r) THEN "sync" ELSE "skip")
    ELSE IF p = "eitaa" THEN "sync"
    ELSE IF ~Has(led, r.id) THEN (IF ~r.deleted THEN "sync" ELSE "tombstone")
    ELSE LET c == Get(led, r.id) IN
         IF c.editDate # r.editDate \/ c.deleted # r.deleted
         THEN IF r.deleted /\ ~c.deleted THEN "delete"
              ELSE IF r.editDate # c.editDate /\ ~r.deleted THEN "edit"
              ELSE "skip"
         ELSE "drop"

\* The adapter call the branch issues first: sendFile / sendMessage in
\* syncPost, deleteMessage in the deleted branch (none without a message
\* id); the edited branch issues none.
CallOf(branch, led, r) ==
    CASE branch = "sync" -> IF r.media > 0 \/ r.text THEN "send" ELSE "none"
      [] branch = "delete" -> IF Get(led, r.id).msgId # NoMsgId THEN "delete" ELSE "none"
      [] OTHER -> "none"

\* The ledger entry written for r once the branch's call has returned.
EntryOf(p, branch, r, msg) ==
    IF p = "eitaa" THEN EitaaEntry(r.id)
    ELSE Entry(r.id, r.date, r.editDate, r.deleted, msg)

\* start(): startWatching follows syncExistingPosts; the end of a watch
\* callback changes nothing.  (Variant: a watch callback that ends by
\* running syncExistingPosts again.)
CatchUpAgain(kind, ph) == IF kind = "initial" THEN "watching" ELSE "catchup"
AfterPass(kind, ph) == IF kind = "initial" THEN "watching" ELSE ph

\* End of the list: syncExistingPosts returns and startWatching sets the
\* timer; a watch callback returns.
PickEnd(p, s) ==
    /\ Running(p)
    /\ cycles[p][s].at = "pick"
    /\ cycles[p][s].pos > Len(cycles[p][s].posts)
    /\ cycles' = [cycles EXCEPT ![p][s] = Idle]
    /\ phase' = [phase EXCEPT ![p] = AfterPass(cycles[p][s].kind, @)]
    /\ UNCHANGED <<src, store, media, status, eng, elapsed, mem, disk, calls, run>>

AtRecord(p, s) ==
    /\ Running(p)
    /\ cycles[p][s].at = "pick"
    /\ cycles[p][s].pos <= Len(cycles[p][s].posts)

BranchAt(p, s) == Decide(p, cycles[p][s].kind, mem[p], Cur(p, s))

\* The loop body reaches a record and issues an adapter call for it.
\* sendFile checks fs.access first and raises when the file is gone.
PickCall(p, s) ==
    /\ AtRecord(p, s)
    /\ LET r == Cur(p, s)
           b == BranchAt(p, s)
           k == CallOf(b, mem[p], r) IN
       /\ k # "none"
       /\ ~(k = "send" /\ r.media > 0 /\ r.id \notin media)
       /\ calls' = [calls EXCEPT ![p][r.id] =
                       IF k = "send" THEN [@ EXCEPT !.sends = Sat(@)]
                       ELSE [@ EXCEPT !.deletes = Sat(@)]]
       /\ cycles' = [cycles EXCEPT ![p][s] =
                        [@ EXCEPT !.at = "call", !.op = k,
                                  !.msg = IF k = "delete" THEN Get(mem[p], r.id).msgId
                                          ELSE NoMsgId,
                                  !.sent = IF k = "send" THEN Append(@, DateKey(r)) ELSE @]]
    /\ UNCHANGED <<src, store, media, status, eng, phase, elapsed, mem, disk, run>>

\* The loop body updates the ledger for a record without any adapter call:
\* a post with neither media nor text, a new tombstone, a delete without a
\* stored message id, an edit.
PickLocal(p, s) ==
    /\ AtRecord(p, s)
    /\ LET r == Cur(p, s)
           b == BranchAt(p, s) IN
       /\ b \in {"sync", "tombstone", "delete", "edit"}
       /\ CallOf(b, mem[p], r) = "none"
       /\ mem' = [mem EXCEPT ![p] = SetEntry(@, EntryOf(p, b, r,
                     IF b \in {"delete", "edit"} THEN Get(mem[p], r.id).msgId ELSE NoMsgId))]
       /\ cycles' = [cycles EXCEPT ![p][s] =
                        [@ EXCEPT !.at = "persist",
                                  !.op = IF b = "sync" THEN "removeAll" ELSE "removePost"]]
    /\ UNCHANGED <<src, store, media, status, eng, phase, elapsed, disk, calls, run>>

\* deletePostData: unlink of post_<id>.json only, the media are kept.
\* (Variant: the record file is kept as well.)
KeepPostData(st, r) == st
DeletePostData(st, r) == Unlink(st, r.id)

\* Unchanged record of a processed id (BaleSync): deletePostData only.
PickDrop(p, s) ==
    /\ AtRecord(p, s)
    /\ BranchAt(p, s) = "drop"
    /\ store' = DeletePostData(store, Cur(p, s))
    /\ cycles' = [cycles EXCEPT ![p][s] = Advance(@)]
    /\ UNCHANGED <<src, media, status, eng, phase, elapsed, mem, disk, calls, run>>

\* The loop body does nothing for the record.
PickSkip(p, s) ==
    /\ AtRecord(p, s)
    /\ BranchAt(p, s) = "skip"
    /\ cycles' = [cycles EXCEPT ![p][s] =
                     [Advance(@) EXCEPT !.stale =
                         IF Has(mem[p], Cur(p, s).id) THEN @ \cup {Cur(p, s)} ELSE @]]
    /\ UNCHANGED <<src, store, media, status, eng, phase, elapsed, mem, disk, calls, run>>


\* The catch of syncPost logs the error and re-throws it: the ledger is
\* left as it was.  (Variant: the record is marked processed all the same.)
MarkOnRaise(led, r) == SetEntry(led, Entry(r.id, r.date, r.editDate, r.deleted, NoMsgId))
AfterRaise(led, r) == led

\* An exception leaves the loop.  In syncExistingPosts it is re-thrown
\* through start() to the main module, which calls process.exit(1).  In a
\* watch callback the catch clears the timer and awaits saveProcessedPosts
\* before process.exit(1); other suspended callbacks go on meanwhile.
Raise(p, s) ==
    /\ run' = [run EXCEPT ![p].failed = Cur(p, s).id]
    /\ mem' = [mem EXCEPT ![p] = AfterRaise(@, Cur(p, s))]
    /\ IF cycles[p][s].kind = "initial"
       THEN /\ phase' = [phase EXCEPT ![p] = "exited"]
            /\ cycles' = [cycles EXCEPT ![p] = AllIdle]
       ELSE /\ phase' = [phase EXCEPT ![p] = "stopping"]
            /\ cycles' = [cycles EXCEPT ![p][s] = [@ EXCEPT !.at = "failsave"]]

\* sendFile: fs.access rejects because the media file is gone.
PickRaise(p, s) ==
    /\ AtRecord(p, s)
    /\ LET r == Cur(p, s) IN
       /\ CallOf(BranchAt(p, s), mem[p], r) = "send"
       /\ r.media > 0
       /\ r.id \notin media
    /\ Raise(p, s)
    /\ UNCHANGED <<src, store, media, status, eng, elapsed, disk, calls>>

\* The adapter call returns ok: syncPost records the message id and sets
\* the ledger entry; the deleted branch sets the entry keeping the cached id.
CallOk(p, s) ==
    /\ Running(p)
    /\ cycles[p][s].at = "call"
    /\ LET r == Cur(p, s)
           c == cycles[p][s] IN
       /\ mem' = [mem EXCEPT ![p] = SetEntry(@,
                     EntryOf(p, IF c.op = "send" THEN "sync" ELSE "delete", r,
                             IF c.op = "send" THEN MsgIdOf(r.id) ELSE c.msg))]
       /\ cycles' = [cycles EXCEPT ![p][s] =
                        [@ EXCEPT !.at = "persist",
                                  !.op = IF c.op = "send" THEN "removeAll" ELSE "removePost"]]
    /\ UNCHANGED <<src, store, media, status, eng, phase, elapsed, disk, calls, run>>

\* The adapter call raises (a non-ok response, a network error).
CallRaise(p, s) ==
    /\ Running(p)
    /\ cycles[p][s].at = "call"
    /\ Raise(p, s)
    /\ UNCHANGED <<src, store, media, status, eng, elapsed, disk, calls>>

\* await saveProcessedPosts() (ok or failed and swallowed), then
\* deletePostAndMedia (after syncPost) or deletePostData; unlink errors are
\* swallowed.
Persist(p, s, ok) ==
    /\ Running(p)
    /\ cycles[p][s].at = "persist"
    /\ disk' = [disk EXCEPT ![p] = SaveProcessedPosts(@, mem[p], ok)]
    /\ store' = Unlink(store, Cur(p, s).id)
    /\ media' = IF cycles[p][s].op = "removeAll" /\ Cur(p, s).media > 0
                THEN media \ {Cur(p, s).id} ELSE media
    /\ cycles' = [cycles EXCEPT ![p][s] = Advance(@)]
    /\ UNCHANGED <<src, status, eng, phase, elapsed, mem, calls, run>>

\* The catch of the watch callback after its await: process.exit(1).
FatalExit(p, s, ok) ==
    /\ phase[p] = "stopping"
    /\ cycles[p][s].at = "failsave"
    /\ disk' = [disk EXCEPT ![p] = SaveProcessedPosts(@, mem[p], ok)]
    /\ phase' = [phase EXCEPT ![p] = "exited"]
    /\ cycles' = [cycles EXCEPT ![p] = AllIdle]
    /\ UNCHANGED <<src, store, media, status, eng, elapsed, mem, calls, run>>

\* SIGINT.  Before startWatching has registered the handler the process
\* just ends.  The handler clears the timer, calls saveProcessedPosts()
\* without awaiting it and calls process.exit(0): the write may not have
\* started ("lost"), may have opened (and truncated) the file only, or may
\* have gone through.
Sigint(p, o) ==
    /\ phase[p] \in {"init", "waiting", "catchup", "watching", "stopping"}
    /\ phase[p] \in {"init", "waiting", "catchup"} => o = "lost"
    /\ disk' = [disk EXCEPT ![p] =
                   CASE o = "lost" -> @
                     [] o = "truncated" -> NoFile
                     [] OTHER -> SaveProcessedPosts(@, mem[p], TRUE)]
    /\ phase' = [phase EXCEPT ![p] = "exited"]
    /\ cycles' = [cycles EXCEPT ![p] = AllIdle]
    /\ UNCHANGED <<src, store, media, status, eng, elapsed, mem, calls, run>>

\* The steps of a syncer when no call raises and no write fails.
Steps(p) ==
    \/ Start(p)
    \/ WaitPoll(p)
    \/ Tick(p)
    \/ \E s \in Slots :
         \/ Load(p, s)
         \/ PickEnd(p, s)
         \/ PickCall(p, s)
         \/ PickDrop(p, s)
         \/ CallOk(p, s)
         \/ Persist(p, s, TRUE)

\* Records passed over with `continue` (already processed, or deleted).
Skips(p) == \E s \in Slots : PickSkip(p, s)

\* Ledger updates that need no adapter call.
Local(p) == \E s \in Slots : PickLocal(p, s)

\* Raising calls and the fatal stop they lead to.
Fatal(p) ==
    \E s \in Slots :
         \/ PickRaise(p, s)
         \/ CallRaise(p, s)
         \/ \E ok \in BOOLEAN : FatalExit(p, s, ok)

\* Interrupts and restarts of the syncer process.
Lifecycle(p) ==
    \/ \E o \in {"lost", "truncated", "written"} : Sigint(p, o)
    \/ Restart(p)

\* saveProcessedPosts fails (and swallows the error) before the removal.
PersistFails(p) == \E s \in Slots : Persist(p, s, FALSE)

Syncer(p) ==
    \/ Steps(p)
    \/ Skips(p)
    \/ Fatal(p)
    \/ Lifecycle(p)
    \/ PersistFails(p)

\* ------------------------------------------------------- Ingestion Engine
\* A message of the channel as the source delivers it (Api.Message) after
\* its k-th edit.
Message(i, k) == [id |-> i, edits |-> k]

EngineUp == eng.pc # "off"

\* processMessage: build PostData from the message (no deleted field),
\* downloadMedia into media/<id>/, savePostData.
ProcessMessage(st, m) ==
    SavePostData(st, Post(m.id, SrcDate(m.id), SrcEditDate(m.edits), FALSE,
                          SrcHasText(m.id), IF SrcHasMedia(m.id) THEN 1 ELSE 0))
DownloadMedia(md, m) == IF SrcHasMedia(m.id) THEN md \cup {m.id} ELSE md

\* hasPostChanged: only editDate is compared (the comparisons of text and
\* media are commented out).  (Variant: the text is compared as well.)
TextOrEditChanged(existing, current) ==
    existing.editDate # current.editDate \/ existing.text # current.text
HasPostChanged(existing, current) == existing.editDate # current.editDate

\* cleanupSyncStatus: unlink of the status file.  (Variant: the file is
\* left as the previous run wrote it.)
KeepSyncStatus(st) == st
CleanupSyncStatus(st) == "absent"

\* start(): ensureStorage, cleanupSyncStatus.  cleared is history: the
\* status the previous run had left.
EngineStart ==
    /\ eng.pc = "off"
    /\ status' = CleanupSyncStatus(status)
    /\ eng' = [pc |-> "ready", todo |-> <<>>, cleared |-> status]
    /\ UNCHANGED <<src, store, media, phase, elapsed, mem, disk, cycles, calls, run>>

\* syncLatestPosts: fs.writeFile of the in_progress status opens the file
\* (truncating it) ...
SyncBegin ==
    /\ eng.pc = "ready"
    /\ status' = "truncated"
    /\ eng' = [eng EXCEPT !.pc = "begin"]
    /\ UNCHANGED <<src, store, media, phase, elapsed, mem, disk, cycles, calls, run>>

\* (Variant: a pass that does not write its begin.)
LeaveStatus(st) == st
\* fs.writeFile replaces the content, whatever it was.
WriteInProgress(st) == "in_progress"

\* ... and then writes { status: 'in_progress', startTime, limit }.
SyncBegun ==
    /\ eng.pc = "begin"
    /\ status' = WriteInProgress(status)
    /\ eng' = [eng EXCEPT !.pc = "resolving"]
    /\ UNCHANGED <<src, store, media, phase, elapsed, mem, disk, cycles, calls, run>>

\* The live messages of the channel, latest first (reverse: false).
RECURSIVE Latest(_)
Latest(n) ==
    IF n = 0 THEN <<>>
    ELSE (IF src[n].st = "live" THEN <<Message(n, src[n].edits)>> ELSE <<>>) \o Latest(n - 1)

\* getEntity, then getMessages inside the try.  getEntity is outside the
\* try: when it rejects, syncLatestPosts rejects and the main module's
\* promise is rejected (the process ends) with the status file as written.
Resolve(outcome) ==
    /\ eng.pc = "resolving"
    /\ CASE outcome = "ok" ->
              /\ eng' = [pc |-> "pass", todo |-> Latest(MaxId)]
              /\ UNCHANGED status
         [] outcome = "fetchError" ->
              /\ eng' = [pc |-> "monitoring", todo |-> <<>>]
              /\ status' = "failed"
         [] OTHER ->
              /\ eng' = [pc |-> "off", todo |-> <<>>]
              /\ UNCHANGED status
    /\ UNCHANGED <<src, store, media, phase, elapsed, mem, disk, cycles, calls, run>>

\* One iteration of the for loop of syncLatestPosts over a regular message:
\* new (no file), updated (hasPostChanged) or skipped.
PassStep ==
    /\ eng.pc = "pass"
    /\ eng.todo # <<>>
    /\ LET m == Head(eng.todo)
           current == Post(m.id, SrcDate(m.id), SrcEditDate(m.edits), FALSE,
                           SrcHasText(m.id), 0)
           write == ~HasFile(store, m.id) \/ HasPostChanged(FileOf(store, m.id), current)
       IN /\ store' = IF write THEN ProcessMessage(store, m) ELSE store
          /\ media' = IF write THEN DownloadMedia(media, m) ELSE media
    /\ eng' = [eng EXCEPT !.todo = Tail(@)]
    /\ UNCHANGED <<src, status, phase, elapsed, mem, disk, cycles, calls, run>>

\* After the loop: the completed status is written.
PassComplete ==
    /\ eng.pc = "pass"
    /\ eng.todo = <<>>
    /\ status' = "completed"
    /\ eng' = [eng EXCEPT !.pc = "monitoring"]
    /\ UNCHANGED <<src, store, media, phase, elapsed, mem, disk, cycles, calls, run>>

\* The engine process ends (crash, kill); a later EngineStart restarts it.
EngineStop ==
    /\ EngineUp
    /\ eng' = [pc |-> "off", todo |-> <<>>]
    /\ UNCHANGED <<src, store, media, status, phase, elapsed, mem, disk, cycles, calls, run>>

\* A message is posted to the channel (ids are assigned in sequence); a
\* running engine gets the NewMessage event and processes it.
NewMessage(i) ==
    /\ src[i].st = "none"
    /\ \A j \in Ids : j < i => src[j].st # "none"
    /\ src' = [src EXCEPT ![i].st = "live"]
    /\ store' = IF EngineUp THEN ProcessMessage(store, Message(i, 0)) ELSE store
    /\ media' = IF EngineUp THEN DownloadMedia(media, Message(i, 0)) ELSE media
    /\ UNCHANGED <<status, eng, phase, elapsed, mem, disk, cycles, calls, run>>

\* A message is edited; editHandler runs processMessage on the new version.
EditedMessage(i) ==
    /\ src[i].st = "live"
    /\ src[i].edits < MaxEdit
    /\ src' = [src EXCEPT ![i].edits = @ + 1]
    /\ store' = IF EngineUp THEN ProcessMessage(store, Message(i, src[i].edits + 1)) ELSE store
    /\ media' = IF EngineUp THEN DownloadMedia(media, Message(i, src[i].edits + 1)) ELSE media
    /\ UNCHANGED <<status, eng, phase, elapsed, mem, disk, cycles, calls, run>>

\* handleDeletedMessage: mark the stored record (if any) deleted, remove
\* media/<id>/.
HandleDeletedMessage(st, i) ==
    IF HasFile(st, i) THEN SavePostData(st, [FileOf(st, i) EXCEPT !.deleted = TRUE]) ELSE st

DeletedMessage(i) ==
    /\ src[i].st = "live"
    /\ src' = [src EXCEPT ![i].st = "deleted"]
    /\ store' = IF EngineUp THEN HandleDeletedMessage(store, i) ELSE store
    /\ media' = IF EngineUp THEN media \ {i} ELSE media
    /\ UNCHANGED <<status, eng, phase, elapsed, mem, disk, cycles, calls, run>>

EngineEvents ==
    \/ \E i \in Ids : NewMessage(i)
    \/ \E i \in Ids : EditedMessage(i)
    \/ \E i \in Ids : DeletedMessage(i)

EnginePass ==
    \/ SyncBegin
    \/ SyncBegun
    \/ \E o \in {"ok", "fetchError"} : Resolve(o)
    \/ PassStep
    \/ PassComplete

EngineLife ==
    \/ EngineStart
    \/ EngineStop
    \/ Resolve("entityError")

Engine == EngineEvents \/ EnginePass \/ EngineLife

\* ------------------------------------------------------- specifications
\* The storage directory is empty, the engine is not started, and the
\* syncers of `active` are constructed and not started.
InitWith(active) ==
    /\ src = [i \in Ids |-> [st |-> "none", edits |-> 0]]
    /\ store = {}
    /\ media = {}
    /\ status = "absent"
    /\ eng = [pc |-> "off", todo |-> <<>>]
    /\ phase = [p \in Platforms |-> IF p \in active THEN "init" ELSE "absent"]
    /\ elapsed = [p \in Platforms |-> 0]
    /\ mem = [p \in Platforms |-> {}]
    /\ disk = [p \in Platforms |-> NoFile]
    /\ cycles = [p \in Platforms |-> AllIdle]
    /\ calls = [p \in Platforms |-> [i \in CallIds |-> NoCalls]]
    /\ run = [p \in Platforms |-> FreshRun]

\* A deployment with one syncer process, Eitaa or Bale.
Init == \E q \in Platforms : InitWith({q})

\* New messages and the catch-up pass of a started engine.
Posts == EngineStart \/ (\E i \in Ids : NewMessage(i)) \/ EnginePass

\* Spec: the engine ingests new messages (events and catch-up), the syncer
\* runs with every fault of its own: raising calls, failing ledger writes,
\* interrupts and restarts.
Next == Posts \/ (\E p \in Platforms : Syncer(p))
Spec == Init /\ [][Next]_vars


\* SpecOrder: one syncer, started or already watching, over a store that
\* holds any records with any dates (absent, equal and out-of-order dates
\* included).  Nothing is written while it runs, so that the actions are
\* those of the passes over these records.
OrderDates == {NoDate, 100, 200, 300}

InitOrder ==
    /\ src = [i \in Ids |-> [st |-> "none", edits |-> 0]]
    /\ \E present \in SUBSET OrderIds :
         \E d \in [OrderIds -> OrderDates] :
           store = {Post(i, d[i], NoDate, FALSE, TRUE, 0) : i \in present}
    /\ media = {}
    /\ status = "absent"
    /\ eng = [pc |-> "off", todo |-> <<>>]
    /\ \E q \in Platforms :
         \E ph \in {"init", "watching"} :
           phase = [p \in Platforms |-> IF p = q THEN ph ELSE "absent"]
    /\ elapsed = [p \in Platforms |-> 0]
    /\ mem = [p \in Platforms |-> {}]
    /\ disk = [p \in Platforms |-> NoFile]
    /\ cycles = [p \in Platforms |-> AllIdle]
    /\ calls = [p \in Platforms |-> [i \in CallIds |-> NoCalls]]
    /\ run = [p \in Platforms |-> FreshRun]

NextOrder == \E p \in Platforms : Steps(p)
SpecOrder == InitOrder /\ [][NextOrder]_vars


\* SpecCoord: the engine ingests new messages, the syncer runs without
\* faults, and wall-clock time passes while it waits.
NextCoord == Posts \/ TimePasses \/ (\E p \in Platforms : Steps(p))
SpecCoord == Init /\ [][NextCoord]_vars

\* SpecWait: the producer-wait alone.  The engine starts, runs catch-up
\* passes over an empty channel, fails, stops or hangs at any point; the
\* syncer polls (the loop's timer fires again and again) and time passes.
NextWait ==
    \/ EngineStart
    \/ EngineStop
    \/ SyncBegin
    \/ SyncBegun
    \/ \E o \in {"ok", "fetchError", "entityError"} : Resolve(o)
    \/ PassComplete
    \/ TimePasses
    \/ \E p \in Platforms : Start(p) \/ WaitPoll(p)
SpecWait ==
    /\ Init
    /\ [][NextWait]_vars
    /\ WF_vars(TimePasses)
    /\ \A p \in Platforms : WF_vars(Start(p)) /\ WF_vars(WaitPoll(p))

\* SpecBale: the events of the channel (new, edited, deleted messages)
\* reach a running engine; the Bale syncer runs without faults.
NextBale ==
    \/ EngineStart
    \/ EngineEvents
    \/ Steps("bale")
    \/ Skips("bale")
    \/ Local("bale")
SpecBale == InitWith({"bale"}) /\ [][NextBale]_vars


\* SpecTwo: the Eitaa and the Bale syncer run as two processes on the same
\* storage directory while new messages reach a running engine; no call
\* fails except sendFile on a media file that has been removed.
NextTwo ==
    \/ EngineStart
    \/ \E i \in Ids : EngineUp /\ NewMessage(i)
    \/ \E p \in Platforms : Steps(p)
    \/ \E p \in Platforms, s \in Slots : PickRaise(p, s)
SpecTwo == InitWith(Platforms) /\ [][NextTwo]_vars

\* SpecEngine: the engine process alone: start, channel events, catch-up
\* passes with every outcome of getEntity and getMessages.  The process is
\* not killed from outside.
NextEngine ==
    \/ EngineStart
    \/ EngineEvents
    \/ EnginePass
    \/ Resolve("entityError")
SpecEngine == Init /\ [][NextEngine]_vars

\* SpecRestart: the engine of SpecEngine, killed and restarted at any
\* point.
NextRestart == NextEngine \/ EngineStop
SpecRestart == Init /\ [][NextRestart]_vars

\* ------------------------------------------- catch-up over media groups
\* SpecPass: syncLatestPosts run twice by the engine alone over one fetched
\* list of messages, some of them members of a media group (groupedId).
\* A fetched message: its id, its group (0: none) and its editDate.
Fetched(i, g, e) == [id |-> i, gid |-> g, editDate |-> e]
\* The record id of a media group, `group_<groupedId>`.
GroupKey(g) == 100 + g

\* messages.sort((a, b) => a.id - b.id), as the ascending list of ids.
RECURSIVE SortIds(_)
SortIds(ids) ==
    IF ids = {} THEN <<>>
    ELSE LET m == CHOOSE x \in ids : \A y \in ids : x <= y
         IN <<m>> \o SortIds(ids \ {m})

\* messages.filter(m => m.groupedId === message.groupedId)
GroupOf(all, g) == {all[k] : k \in {n \in 1..Len(all) : all[n].gid = g}}

\* processMediaGroup: the record of the group is built from the member
\* with the lowest id; childMessages are the ids, ascending.
ProcessMediaGroup(st, msgs) ==
    LET ids == SortIds({m.id : m \in msgs})
        main == CHOOSE m \in msgs : m.id = ids[1]
        rec == [id |-> GroupKey(main.gid), date |-> SrcDate(main.id),
                editDate |-> main.editDate, deleted |-> FALSE,
                text |-> SrcHasText(main.id),
                media |-> Cardinality({m \in msgs : SrcHasMedia(m.id)}),
                childMessages |-> ids]
    IN SavePostData(st, rec)

\* Every list getMessages may return: ids PassLen..1 (latest first), each
\* message single or in group 1, edited or not.
FetchedLists ==
    {l \in [1..PassLen -> {Fetched(i, g, e) : i \in 1..PassLen, g \in {0, 1},
                                            e \in {NoDate, SrcEditDate(1)}}] :
        \A k \in 1..PassLen : l[k].id = PassLen + 1 - k}

PassCounters == [newPosts |-> 0, updatedPosts |-> 0, skippedPosts |-> 0]

InitPass ==
    /\ src \in FetchedLists
    /\ store = {}
    /\ media = {}
    /\ status = "in_progress"
    /\ eng = [pc |-> "pass", todo |-> src, run |-> 1, before |-> {},
              count |-> PassCounters]
    /\ phase = [p \in Platforms |-> "absent"]
    /\ elapsed = [p \in Platforms |-> 0]
    /\ mem = [p \in Platforms |-> {}]
    /\ disk = [p \in Platforms |-> NoFile]
    /\ cycles = [p \in Platforms |-> AllIdle]
    /\ calls = [p \in Platforms |-> [i \in CallIds |-> NoCalls]]
    /\ run = [p \in Platforms |-> FreshRun]

\* One iteration of the for loop of syncLatestPosts, media groups included.
SyncStep ==
    /\ eng.pc = "pass"
    /\ eng.todo # <<>>
    /\ LET m == Head(eng.todo)
           key == IF m.gid # 0 THEN GroupKey(m.gid) ELSE m.id
           current == [editDate |-> m.editDate, text |-> SrcHasText(m.id)]
           kind == IF ~HasFile(store, key) THEN "newPosts"
                   ELSE IF HasPostChanged(FileOf(store, key), current) THEN "updatedPosts"
                   ELSE "skippedPosts"
       IN /\ store' = IF kind = "skippedPosts" THEN store
                      ELSE IF m.gid # 0 THEN ProcessMediaGroup(store, GroupOf(src, m.gid))
                      ELSE SavePostData(store, Post(m.id, SrcDate(m.id), m.editDate, FALSE,
                                                    SrcHasText(m.id),
                                                    IF SrcHasMedia(m.id) THEN 1 ELSE 0))
          /\ media' = IF kind = "skippedPosts" THEN media
                      ELSE IF m.gid # 0
                           THEN media \cup {x.id : x \in {y \in GroupOf(src, m.gid) : SrcHasMedia(y.id)}}
                           ELSE DownloadMedia(media, m)
          /\ eng' = [eng EXCEPT !.todo = Tail(@), !.count[kind] = @ + 1]
    /\ UNCHANGED <<src, status, phase, elapsed, mem, disk, cycles, calls, run>>

\* End of the loop: the completed status with the three counters.
SyncDone ==
    /\ eng.pc = "pass"
    /\ eng.todo = <<>>
    /\ status' = "completed"
    /\ eng' = [eng EXCEPT !.pc = "done"]
    /\ UNCHANGED <<src, store, media, phase, elapsed, mem, disk, cycles, calls, run>>

\* syncLatestPosts is called again and getMessages returns the same list.
SyncAgain ==
    /\ eng.pc = "done"
    /\ eng.run = 1
    /\ status' = WriteInProgress(status)
    /\ eng' = [pc |-> "pass", todo |-> src, run |-> 2, before |-> store,
               count |-> PassCounters]
    /\ UNCHANGED <<src, store, media, phase, elapsed, mem, disk, cycles, calls, run>>

NextPass == SyncStep \/ SyncDone \/ SyncAgain
SpecPass == InitPass /\ [][NextPass]_vars

\* An iteration in which downloadMedia or savePostData rejects.  For a
\* regular message processMessage catches the error: nothing is saved, the
\* counter is incremented and the loop goes on.  processMediaGroup has no
\* catch: the error leaves the loop through the catch of syncLatestPosts,
\* which writes the failed status; the rest of the list is not visited.
SyncStepRaise ==
    /\ eng.pc = "pass"
    /\ eng.todo # <<>>
    /\ LET m == Head(eng.todo)
           key == IF m.gid # 0 THEN GroupKey(m.gid) ELSE m.id
           current == [editDate |-> m.editDate, text |-> SrcHasText(m.id)]
           kind == IF ~HasFile(store, key) THEN "newPosts" ELSE "updatedPosts"
       IN /\ IF HasFile(store, key) THEN HasPostChanged(FileOf(store, key), current)
             ELSE TRUE
          /\ IF m.gid # 0
             THEN /\ status' = "failed"
                  /\ eng' = [eng EXCEPT !.pc = "done", !.todo = Tail(@)]
             ELSE /\ status' = status
                  /\ eng' = [eng EXCEPT !.todo = Tail(@), !.count[kind] = @ + 1]
    /\ UNCHANGED <<src, store, media, phase, elapsed, mem, disk, cycles, calls, run>>

\* SpecClassify: one pass of syncLatestPosts over any fetched list, in a
\* directory that holds any records of earlier runs: for each message
\* none, or a record with or without editDate whose text is not the
\* message's; for the group none, or a record with or without editDate.
StoredEdits == {NoDate, SrcEditDate(1)}
OldPost(i, e) == Post(i, SrcDate(i), e, FALSE, ~SrcHasText(i), 0)
OldGroup(e) ==
    [id |-> GroupKey(1), date |-> SrcDate(1), editDate |-> e, deleted |-> FALSE,
     text |-> ~SrcHasText(1), media |-> 0, childMessages |-> <<1>>]

InitClassify ==
    /\ src \in FetchedLists
    /\ \E have \in SUBSET (1..PassLen), e \in [1..PassLen -> StoredEdits],
          grp \in SUBSET StoredEdits :
         /\ Cardinality(grp) <= 1
         /\ store = {OldPost(i, e[i]) : i \in have} \cup {OldGroup(g) : g \in grp}
    /\ media = {}
    /\ status = "in_progress"
    /\ eng = [pc |-> "pass", todo |-> src, run |-> 1, before |-> store,
              count |-> PassCounters]
    /\ phase = [p \in Platforms |-> "absent"]
    /\ elapsed = [p \in Platforms |-> 0]
    /\ mem = [p \in Platforms |-> {}]
    /\ disk = [p \in Platforms |-> NoFile]
    /\ cycles = [p \in Platforms |-> AllIdle]
    /\ calls = [p \in Platforms |-> [i \in CallIds |-> NoCalls]]
    /\ run = [p \in Platforms |-> FreshRun]

NextClassify == SyncStep \/ SyncDone
SpecClassify == InitClassify /\ [][NextClassify]_vars

\* SpecPassFaults: the passes of SpecPass with processing errors.
NextPassFaults == NextPass \/ SyncStepRaise
SpecPassFaults == InitPass /\ [][NextPassFaults]_vars

\* ------------------------------------------------- media-group buffering
\* SpecGroup: the new-message events of one media group (groupedId 1) reach
\* handleMediaGroup in any order and with any timing.  src holds the ids
\* still to arrive; eng holds the buffer mediaGroups.get(groupId) (buf),
\* the pending 500 ms waits in the order they were started (timers), the
\* processMediaGroup calls under way (jobs, each the ids it was given) and,
\* as history, all ids of the group (all) and the sizes of the sub-bursts
\* (bursts): a message opens a new sub-burst when it arrives after the
\* wait of the previous one is over.
GroupIds == 1..GroupLen

InitGroup ==
    /\ src \in (SUBSET GroupIds) \ {{}}
    /\ store = {}
    /\ media = {}
    /\ status = "absent"
    /\ eng = [pc |-> "monitoring", buf |-> <<>>, timers |-> <<>>, jobs |-> {},
              all |-> src, bursts |-> <<>>]
    /\ phase = [p \in Platforms |-> "absent"]
    /\ elapsed = [p \in Platforms |-> 0]
    /\ mem = [p \in Platforms |-> {}]
    /\ disk = [p \in Platforms |-> NoFile]
    /\ cycles = [p \in Platforms |-> AllIdle]
    /\ calls = [p \in Platforms |-> [i \in CallIds |-> NoCalls]]
    /\ run = [p \in Platforms |-> FreshRun]

\* handleMediaGroup up to its await: push the message, set the buffer,
\* start the 500 ms wait.
HandleMediaGroup(i) ==
    /\ i \in src
    /\ src' = src \ {i}
    /\ eng' = [eng EXCEPT
                 !.buf = Append(@, i),
                 !.timers = Append(@, i),
                 !.bursts = IF eng.timers = <<>> THEN Append(@, 1)
                            ELSE [@ EXCEPT ![Len(@)] = @ + 1]]
    /\ UNCHANGED <<store, media, status, phase, elapsed, mem, disk, cycles, calls, run>>

\* currentGroup.length > 1 && currentGroup[currentGroup.length - 1] === message
AnyOfGroup(buf, m) == Len(buf) > 1
IsLastOfGroup(buf, m) == Len(buf) > 1 /\ buf[Len(buf)] = m

Range(seq) == {seq[k] : k \in 1..Len(seq)}

\* handleMediaGroup after its await: when the message is the last of the
\* buffer, processMediaGroup starts on the buffer: it sorts the array in
\* place and takes the ids before its first await.
GroupWaitOver ==
    /\ eng.timers # <<>>
    /\ LET m == Head(eng.timers) IN
       eng' = IF IsLastOfGroup(eng.buf, m)
              THEN [eng EXCEPT !.timers = Tail(@), !.buf = SortIds(Range(@)),
                               !.jobs = @ \cup {Range(eng.buf)}]
              ELSE [eng EXCEPT !.timers = Tail(@)]
    /\ UNCHANGED <<src, store, media, status, phase, elapsed, mem, disk, cycles, calls, run>>

\* processMediaGroup returns (media downloaded, also of members pushed onto
\* the array meanwhile if the loop has not passed them; record saved);
\* handleMediaGroup deletes the buffer.
GroupSaved(job) ==
    /\ job \in eng.jobs
    /\ store' = ProcessMediaGroup(store, {Fetched(i, 1, NoDate) : i \in job})
    /\ \E late \in SUBSET (Range(eng.buf) \ job) :
         media' = media \cup {i \in job \cup late : SrcHasMedia(i)}
    /\ eng' = [eng EXCEPT !.jobs = @ \ {job}, !.buf = <<>>]
    /\ UNCHANGED <<src, status, phase, elapsed, mem, disk, cycles, calls, run>>

NextGroup ==
    \/ \E i \in GroupIds : HandleMediaGroup(i)
    \/ GroupWaitOver
    \/ \E job \in SUBSET GroupIds : GroupSaved(job)
SpecGroup == InitGroup /\ [][NextGroup]_vars

\* ------------------------------------------------- record files in writing
\* SpecRead: a running engine saves the records of new messages while one
\* syncer runs.  savePostData is fs.writeFile: the file is opened (created
\* empty or truncated) and written later; eng.partial holds the ids whose
\* file is open and not yet written.  A pass that reads meanwhile gets no
\* record from such a file.
InitRead ==
    /\ src = [i \in Ids |-> [st |-> "none", edits |-> 0]]
    /\ store = {}
    /\ media = {}
    /\ status = "absent"
    /\ eng = [pc |-> "monitoring", todo |-> <<>>, partial |-> {}]
    /\ \E q \in Platforms : phase = [p \in Platforms |-> IF p = q THEN "init" ELSE "absent"]
    /\ elapsed = [p \in Platforms |-> 0]
    /\ mem = [p \in Platforms |-> {}]
    /\ disk = [p \in Platforms |-> NoFile]
    /\ cycles = [p \in Platforms |-> AllIdle]
    /\ calls = [p \in Platforms |-> [i \in CallIds |-> NoCalls]]
    /\ run = [p \in Platforms |-> FreshRun]

\* processMessage of a new message up to the open of the record file.
SaveBegin(i) ==
    /\ src[i].st = "none"
    /\ \A j \in Ids : j < i => src[j].st # "none"
    /\ src' = [src EXCEPT ![i].st = "live"]
    /\ store' = ProcessMessage(store, Message(i, 0))
    /\ media' = DownloadMedia(media, Message(i, 0))
    /\ eng' = [eng EXCEPT !.partial = @ \cup {i}]
    /\ UNCHANGED <<status, phase, elapsed, mem, disk, cycles, calls, run>>

\* fs.writeFile has written the record.
SaveEnd(i) ==
    /\ i \in eng.partial
    /\ eng' = [eng EXCEPT !.partial = @ \ {i}]
    /\ UNCHANGED <<src, store, media, status, phase, elapsed, mem, disk, cycles, calls, run>>

SlotStep(p, s) ==
    \/ LoadSkipping(p, s, eng.partial)
    \/ PickEnd(p, s)
    \/ PickCall(p, s)
    \/ CallOk(p, s)
    \/ Persist(p, s, TRUE)

NextRead ==
    \/ \E i \in Ids : SaveBegin(i) \/ SaveEnd(i)
    \/ \E p \in Platforms : Start(p) \/ WaitPoll(p) \/ Tick(p)
    \/ \E p \in Platforms, s \in Slots : SlotStep(p, s)

\* Every write completes, the timer keeps firing, and every suspended
\* callback is resumed when its call returns.
SpecRead ==
    /\ InitRead
    /\ [][NextRead]_vars
    /\ \A i \in Ids : WF_vars(SaveEnd(i))
    /\ \A p \in Platforms : WF_vars(Start(p)) /\ WF_vars(WaitPoll(p)) /\ WF_vars(Tick(p))
    /\ \A p \in Platforms, s \in Slots : WF_vars(SlotStep(p, s))

\* ------------------------------------------------- syncer main module
\* SpecBoot: a standalone syncer process from its main module on.  The
\* main module validates the environment variables, constructs the syncer,
\* awaits testConnection (getMe) and only then awaits start(); on a
\* missing value or a failed test it calls process.exit(1) ("aborted").
StartAnyway(cfg, conn) == TRUE
MayStart(cfg, conn) == cfg /\ conn

MainEntry(p, cfg, conn) ==
    /\ phase[p] = "boot"
    /\ run' = [run EXCEPT ![p].boot = IF ~cfg THEN "config"
                                      ELSE IF ~conn THEN "connection" ELSE "ok"]
    /\ phase' = [phase EXCEPT ![p] = IF MayStart(cfg, conn) THEN "init" ELSE "aborted"]
    /\ UNCHANGED <<src, store, media, status, eng, elapsed, mem, disk, cycles, calls>>

InitBoot ==
    /\ src = [i \in Ids |-> [st |-> "none", edits |-> 0]]
    /\ store = {}
    /\ media = {}
    /\ status = "absent"
    /\ eng = [pc |-> "off", todo |-> <<>>]
    /\ \E q \in Platforms : phase = [p \in Platforms |-> IF p = q THEN "boot" ELSE "absent"]
    /\ elapsed = [p \in Platforms |-> 0]
    /\ mem = [p \in Platforms |-> {}]
    /\ disk = [p \in Platforms |-> NoFile]
    /\ cycles = [p \in Platforms |-> AllIdle]
    /\ calls = [p \in Platforms |-> [i \in CallIds |-> NoCalls]]
    /\ run = [p \in Platforms |-> FreshRun]

NextBoot ==
    \/ EngineStart
    \/ \E i \in Ids : EngineUp /\ NewMessage(i)
    \/ \E p \in Platforms, cfg \in BOOLEAN, conn \in BOOLEAN : MainEntry(p, cfg, conn)
    \/ \E p \in Platforms : Steps(p)
SpecBoot == InitBoot /\ [][NextBoot]_vars

\* ------------------------------------------------- a producer that stops
\* SpecStall: the engine records new messages and runs its catch-up pass;
\* one syncer runs without faults.  The syncer's timers keep firing and
\* each of its suspended callbacks is resumed; nothing is assumed of the
\* engine, which may take no further step from any point on (it has been
\* killed, or hangs in a call).
PassStepOf(p, s) ==
    \/ Load(p, s)
    \/ PickEnd(p, s)
    \/ PickCall(p, s)
    \/ PickDrop(p, s)
    \/ CallOk(p, s)
    \/ Persist(p, s, TRUE)

NextStall ==
    \/ EngineStart
    \/ \E i \in Ids : EngineUp /\ NewMessage(i)
    \/ EnginePass
    \/ TimePasses
    \/ \E p \in Platforms : Start(p) \/ WaitPoll(p) \/ Tick(p)
    \/ \E p \in Platforms, s \in Slots : PassStepOf(p, s)

SpecStall ==
    /\ Init
    /\ [][NextStall]_vars
    /\ WF_vars(TimePasses)
    /\ \A p \in Platforms : WF_vars(Start(p)) /\ WF_vars(WaitPoll(p)) /\ WF_vars(Tick(p))
    /\ \A p \in Platforms, s \in Slots : WF_vars(PassStepOf(p, s))

\* ------------------------------------------------- two watching syncers
\* SpecShared: both syncers have started on an empty directory and are in
\* their watch loops, the engine is monitoring; messages are posted and
\* recorded from then on.  No call fails; the engine runs no pass.
InitShared ==
    /\ src = [i \in Ids |-> [st |-> "none", edits |-> 0]]
    /\ store = {}
    /\ media = {}
    /\ status = "completed"
    /\ eng = [pc |-> "monitoring", todo |-> <<>>]
    /\ phase = [p \in Platforms |-> "watching"]
    /\ elapsed = [p \in Platforms |-> 0]
    /\ mem = [p \in Platforms |-> {}]
    /\ disk = [p \in Platforms |-> NoFile]
    /\ cycles = [p \in Platforms |-> AllIdle]
    /\ calls = [p \in Platforms |-> [i \in CallIds |-> NoCalls]]
    /\ run = [p \in Platforms |-> FreshRun]

NextShared ==
    \/ \E i \in Ids : NewMessage(i)
    \/ \E p \in Platforms : Tick(p)
    \/ \E p \in Platforms, s \in Slots : PassStepOf(p, s)
SpecShared == InitShared /\ [][NextShared]_vars

\* ------------------------------------------------- tombstones in the store
\* SpecTombs: messages are posted and deleted while the engine runs; one
\* syncer (Eitaa or Bale) runs, is interrupted and restarted, so that its
\* catch-up also starts with a ledger on disk.  No call fails except
\* sendFile on a media file that has been removed.
NextTombs ==
    \/ EngineStart
    \/ \E i \in Ids : NewMessage(i)
    \/ \E i \in Ids : DeletedMessage(i)
    \/ \E p \in Platforms : Steps(p) \/ Skips(p) \/ Local(p) \/ Lifecycle(p)
    \/ \E p \in Platforms, s \in Slots : PickRaise(p, s)
SpecTombs == Init /\ [][NextTombs]_vars

\* ------------------------------------------------------- syncPost alone
\* SpecDeliver: one call of syncPost(postData) by a watching syncer, for
\* any record: src is the record (media: the list of its media paths,
\* text: "none" for an absent text, "" for an empty one), store holds its
\* file, media the paths present on disk.  cycles[p] is the position of
\* the call: the index of the next media item (k) and baleMessageId (msg);
\* calls[p] is the list of adapter calls issued so far, each with the
\* message_id of its response (NoMsgId: a response without result).
MaxMedia == 2       \* media paths of one record
MediaPaths == {"a.jpg", "b.mp4"}
Texts == {"none", "", "hello"}

\* if (postData.text), if (caption): an absent or empty string is falsy.
Truthy(t) == t \notin {"none", ""}

SendFileCall(path, caption, ret) ==
    [op |-> "sendFile", arg |-> path,
     caption |-> IF Truthy(caption) THEN caption ELSE "none", ret |-> ret]
SendMessageCall(text, ret) ==
    [op |-> "sendMessage", arg |-> text, caption |-> "none", ret |-> ret]

\* Variant: the text is sent as a message of its own after the media.
MediaThenText(r) == IF Truthy(r.text) THEN "text" ELSE "record"
\* syncPost: the media loop and the text send are the two arms of one
\* if / else if; after the media loop comes processedPosts.set.
AfterMedia(r) == "record"

\* if (result.ok && result.result) baleMessageId = result.result.message_id
Returned(msg, ret) == IF ret # NoMsgId THEN ret ELSE msg

InitDeliver ==
    /\ \E i \in Ids, n \in 0..MaxMedia, t \in Texts :
         \E paths \in [1..n -> MediaPaths] :
           /\ src = Post(i, SrcDate(i), NoDate, FALSE, t, paths)
           /\ store = {src}
           /\ media = Range(paths)
    /\ status = "completed"
    /\ eng = [pc |-> "monitoring", todo |-> <<>>]
    /\ \E q \in Platforms :
         /\ phase = [p \in Platforms |-> IF p = q THEN "watching" ELSE "absent"]
         /\ cycles = [p \in Platforms |->
                        [at |-> IF p = q THEN "begin" ELSE "idle", k |-> 1, msg |-> NoMsgId]]
    /\ elapsed = [p \in Platforms |-> 0]
    /\ mem = [p \in Platforms |-> {}]
    /\ disk = [p \in Platforms |-> NoFile]
    /\ calls = [p \in Platforms |-> <<>>]
    /\ run = [p \in Platforms |-> FreshRun]

\* if (postData.media && postData.media.length > 0) ... else if (postData.text)
SyncPostBegin(p) ==
    /\ cycles[p].at = "begin"
    /\ cycles' = [cycles EXCEPT ![p].at =
                     IF Len(src.media) > 0 THEN "media"
                     ELSE IF Truthy(src.text) THEN "text" ELSE "record"]
    /\ UNCHANGED <<src, store, media, status, eng, phase, elapsed, mem, disk, calls, run>>

\* One iteration of the media loop: sendFile(mediaPath, postData.text, ...)
\* returns; the platform answers with a new message_id or without result.
SyncPostFile(p, ret) ==
    /\ cycles[p].at = "media"
    /\ LET k == cycles[p].k IN
       /\ ret \in {NoMsgId, MsgIdOf(Len(calls[p]) + 1)}
       /\ calls' = [calls EXCEPT ![p] = Append(@, SendFileCall(src.media[k], src.text, ret))]
       /\ cycles' = [cycles EXCEPT
                        ![p].k = k + 1,
                        ![p].msg = IF p = "bale" THEN Returned(@, ret) ELSE @,
                        ![p].at = IF k = Len(src.media) THEN AfterMedia(src) ELSE "media"]
    /\ UNCHANGED <<src, store, media, status, eng, phase, elapsed, mem, disk, run>>

\* sendMessage(postData.text, postData.pinned) returns.
SyncPostText(p, ret) ==
    /\ cycles[p].at = "text"
    /\ ret \in {NoMsgId, MsgIdOf(Len(calls[p]) + 1)}
    /\ calls' = [calls EXCEPT ![p] = Append(@, SendMessageCall(src.text, ret))]
    /\ cycles' = [cycles EXCEPT ![p].at = "record",
                                ![p].msg = IF p = "bale" THEN Returned(@, ret) ELSE @]
    /\ UNCHANGED <<src, store, media, status, eng, phase, elapsed, mem, disk, run>>

\* processedPosts.set / add, await saveProcessedPosts().
SyncPostRecord(p) ==
    /\ cycles[p].at = "record"
    /\ mem' = [mem EXCEPT ![p] = SetEntry(@, EntryOf(p, "sync", src, cycles[p].msg))]
    /\ disk' = [disk EXCEPT ![p] = SaveProcessedPosts(@, mem'[p], TRUE)]
    /\ cycles' = [cycles EXCEPT ![p].at = "remove"]
    /\ UNCHANGED <<src, store, media, status, eng, phase, elapsed, calls, run>>

\* deletePostAndMedia: unlink of each media path, then of the record file.
DeletePostAndMedia(p) ==
    /\ cycles[p].at = "remove"
    /\ media' = media \ Range(src.media)
    /\ store' = Unlink(store, src.id)
    /\ cycles' = [cycles EXCEPT ![p].at = "done"]
    /\ UNCHANGED <<src, status, eng, phase, elapsed, mem, disk, calls, run>>

NextDeliver ==
    \E p \in Platforms :
        \/ SyncPostBegin(p)
        \/ \E ret \in 0..(10 + MaxMedia + 1) : SyncPostFile(p, ret) \/ SyncPostText(p, ret)
        \/ SyncPostRecord(p)
        \/ DeletePostAndMedia(p)
SpecDeliver == InitDeliver /\ [][NextDeliver]_vars

\* ================================================================ claims
DistinctDates(posts) ==
    \A a, b \in 1..Len(posts) : a # b => DateKey(posts[a]) # DateKey(posts[b])
Ascending(seq) == \A a, b \in 1..Len(seq) : a < b => seq[a] < seq[b]

\* C1: within one pass (the initial catch-up or one watch cycle) the sends
\* are issued in ascending order of the records' source date, a record
\* without a date counting as 0; records with equal dates are not ordered.
C1_SendsAscendByDate ==
    \A p \in Platforms, s \in Slots :
        DistinctDates(cycles[p][s].posts) => Ascending(cycles[p][s].sent)

\* Records 1, 3, 2 carry dates 100, 300, 200 and one pass has sent all three.
C1_Witness ==
    \E p \in Platforms, s \in Slots :
        /\ cycles[p][s].sent = <<100, 200, 300>>
        /\ Len(cycles[p][s].posts) = 3
        /\ cycles[p][s].posts[2].id = 3
        /\ cycles[p][s].posts[3].id = 2

\* C2: for an id whose editDate never changes a syncer issues the send at
\* most once, over catch-ups, watch cycles and re-creations of the record.
C2_AtMostOneSend ==
    \A p \in Platforms, i \in Ids : calls[p][i].sends <= 1

\* C3: a watch cycle whose timer fires while the status ledger reads
\* in_progress returns at once: no watch cycle ever starts under
\* in_progress, and such a tick leaves records, media, both ledgers, the
\* cycles in flight and the calls issued as they were.
C3_TickSkipsWhileInProgress ==
    /\ [](\A p \in Platforms, s \in Slots :
            cycles[p][s].kind = "watch" => ~cycles[p][s].blind)
    /\ [][\A p \in Platforms :
            (Tick(p) /\ status = "in_progress")
                => UNCHANGED <<store, media, mem, disk, cycles, calls>>]_vars

\* A tick was skipped during a catch-up pass of the engine although a
\* record the syncer has not processed is waiting.
C3_Witness ==
    \E p \in Platforms :
        /\ phase[p] = "watching"
        /\ run[p].skipped
        /\ status = "in_progress"
        /\ cycles[p] = AllIdle
        /\ \E r \in store : ~r.deleted /\ ~Has(mem[p], r.id)

\* C4: the producer-wait ends: a waiting syncer always gets to its initial
\* catch-up, and a poll made after the maximum wait has elapsed proceeds
\* whatever the status ledger says.
C4_WaitEnds ==
    /\ \A p \in Platforms : (phase[p] = "waiting") ~> (phase[p] = "catchup")
    /\ [][\A p \in Platforms :
            (WaitPoll(p) /\ elapsed[p] > MaxWaitTime) => phase'[p] = "catchup"]_vars

\* The engine never finished its pass; the syncer proceeded after the bound.
C4_Witness ==
    \E p \in Platforms :
        /\ phase[p] = "catchup"
        /\ status = "in_progress"
        /\ elapsed[p] > MaxWaitTime
        /\ cycles[p][1].kind = "initial"
        /\ cycles[p][1].blind

\* C5: while it waits the syncer has no pass in flight and has issued no
\* call; an initial catch-up that began under in_progress began after the
\* maximum wait; and a poll that finds anything but in_progress proceeds.
C5_CatchupAfterProducer ==
    /\ [](\A p \in Platforms :
            /\ phase[p] \in {"init", "waiting"} =>
                   cycles[p] = AllIdle /\ \A i \in CallIds : calls[p][i] = NoCalls
            /\ \A s \in Slots :
                   (cycles[p][s].kind = "initial" /\ cycles[p][s].blind)
                       => elapsed[p] > MaxWaitTime)
    /\ [][\A p \in Platforms :
            (WaitPoll(p) /\ status # "in_progress") => phase'[p] = "catchup"]_vars

\* The syncer waited through part of an engine pass, the pass completed
\* within the bound, and the catch-up is now reading the records it left.
C5_Witness ==
    \E p \in Platforms :
        /\ phase[p] = "catchup"
        /\ elapsed[p] \in 1..MaxWaitTime
        /\ status = "completed"
        /\ ~cycles[p][1].blind
        /\ cycles[p][1].at = "pick"
        /\ Len(cycles[p][1].posts) > 0

\* C6: isTelegramSyncInProgress is true exactly when the status file
\* parses to in_progress; a file that is missing or does not parse counts
\* as not in progress, so a poll of the wait proceeds to the catch-up and a
\* tick starts its cycle.
C6_FailOpen ==
    /\ [](IsTelegramSyncInProgress(status) <=> status = "in_progress")
    /\ [][\A p \in Platforms :
            status \in {"absent", "truncated"} =>
                /\ WaitPoll(p) => phase'[p] = "catchup"
                /\ Tick(p) => \E s \in Slots :
                       cycles[p][s].kind = "idle" /\ cycles'[p][s].kind = "watch"]_vars

\* The initial catch-up runs although the engine's write of the status
\* file has only truncated it.
C6_Witness ==
    \E p \in Platforms :
        /\ status = "truncated"
        /\ phase[p] = "catchup"
        /\ cycles[p][1].at = "load"
        /\ ~cycles[p][1].blind
        /\ elapsed[p] <= MaxWaitTime


\* C7: once a call has raised in the watch loop the syncer issues no
\* further call for any other record in that process run.
C7_NoCallAfterFailure ==
    [][\A p \in Platforms, i \in Ids :
          (run[p].failed # 0 /\ run'[p].failed # 0 /\ i # run[p].failed)
              => calls'[p][i] = calls[p][i]]_vars

\* C8: whenever a syncer removes a record file, the ledger file of its
\* platform as it then is on disk contains the record's id.
C8_RemovalFollowsPersist ==
    [][\A p \in Platforms, i \in Ids :
          (phase[p] # "absent" /\ HasFile(store, i) /\ ~HasFile(store', i))
              => (disk'[p].ok /\ Has(disk'[p].entries, i))]_vars

\* C9: the Bale syncer issues at most one delete call for an id.
C9_AtMostOneDelete ==
    \A i \in Ids : calls["bale"][i].deletes <= 1

\* C10: when a watch cycle of the Bale syncer has taken the edited branch
\* for a record (a processed id, a changed editDate, not deleted) and is
\* about to persist the ledger and remove the record, an edit call has
\* been issued for that id.
C10_EditCallIssued ==
    \A s \in Slots :
        LET c == cycles["bale"][s] IN
        (c.at = "persist" /\ c.op = "removePost" /\ ~c.posts[c.pos].deleted)
            => calls["bale"][c.posts[c.pos].id].edits >= 1


\* C11: a pass of the Eitaa syncer that has passed over a record because
\* its id was in the ledger already has removed that record file by the
\* time the pass ends (no other pass of the syncer being in flight).
C11_StaleRecordRemoved ==
    [][\A s \in Slots :
          (PickEnd("eitaa", s) /\ \A t \in Slots \ {s} : cycles["eitaa"][t] = Idle)
              => \A r \in cycles["eitaa"][s].stale : r \notin store']_vars


\* C12: with both syncers running on one storage directory, once every
\* record has been consumed and both syncers sit idle in their watch loop,
\* each message the engine has stored has been sent by each of the two.
C12_EachSyncerRelays ==
    (/\ store = {}
     /\ \A p \in Platforms : phase[p] = "watching" /\ cycles[p] = AllIdle)
        => \A i \in Ids : src[i].st = "live" =>
               \A p \in Platforms : calls[p][i].sends >= 1


\* C13: a second run of syncLatestPosts over the same fetched messages ends
\* with newPosts = 0 and updatedPosts = 0 and with every record as it was.
C13_SecondPassIdle ==
    (eng.pc = "done" /\ eng.run = 2)
        => /\ eng.count.newPosts = 0
           /\ eng.count.updatedPosts = 0
           /\ store = eng.before


\* C14: the status ledger reads in_progress only while syncLatestPosts is
\* running: once the call has returned or thrown the status is terminal.
C14_PassEndsTerminal ==
    status = "in_progress" => eng.pc \in {"resolving", "pass"}


\* Every message of the group has arrived, every wait is over and no
\* processMediaGroup call is under way.
GroupSettled == src = {} /\ eng.timers = <<>> /\ eng.jobs = {}
GroupRecords == {r \in store : r.id = GroupKey(1)}

\* C15: when two or more messages of a group arrive as one burst (each
\* within the wait of the previous one), the engine ends with exactly one
\* record for the group, its childMessages being all the ids in ascending
\* order, and with the buffer removed.
C15_GroupComplete ==
    (GroupSettled /\ Len(eng.bursts) = 1 /\ eng.bursts[1] >= 2)
        => /\ Cardinality(store) = 1
           /\ \A r \in store : r.id = GroupKey(1) /\ r.childMessages = SortIds(eng.all)
           /\ eng.buf = <<>>

\* A burst of four messages has been finalized.
C15_Witness ==
    /\ GroupSettled
    /\ eng.bursts = <<4>>
    /\ \E r \in store : r.childMessages = <<1, 2, 3, 4>>

\* C16: when the messages of a group arrive as two sub-bursts (of two or
\* more messages each) separated by more than the wait, the record the
\* engine ends with holds the ids of both sub-bursts.
C16_BothSubBursts ==
    (GroupSettled /\ Len(eng.bursts) = 2 /\ eng.bursts[1] >= 2 /\ eng.bursts[2] >= 2)
        => \E r \in GroupRecords : r.childMessages = SortIds(eng.all)


\* C17: once the stored record of an id is marked deleted, no engine
\* operation leaves the directory with a record of that id that is not
\* marked deleted, or without it.
C17_TombstoneKept ==
    [][\A r \in store : r.deleted => \E q \in store' : q.id = r.id /\ q.deleted]_vars


\* The states of start() in their order; a process that has exited is
\* replaced by a new instance (Restart), which begins again at loading.
PhaseRank(ph) ==
    CASE ph = "init" -> 1
      [] ph = "waiting" -> 2
      [] ph = "catchup" -> 3
      [] ph = "watching" -> 4
      [] ph = "stopping" -> 5
      [] ph = "exited" -> 6
      [] OTHER -> 0
PassActive(p, kind) == \E s \in Slots : cycles[p][s] # Idle /\ cycles[p][s].kind = kind

\* C18: a syncer instance moves only forward through loading, waiting for
\* the producer, initial catch-up, watching and shutting down; a watch
\* cycle runs only once the syncer is watching, and then no initial
\* catch-up is under way or starts again.
C18_ForwardOnly ==
    /\ [][\A p \in Platforms :
            phase[p] # "exited" => PhaseRank(phase'[p]) >= PhaseRank(phase[p])]_vars
    /\ [](\A p \in Platforms :
            /\ PassActive(p, "watch") => phase[p] \in {"watching", "stopping"}
            /\ PassActive(p, "initial") => phase[p] = "catchup"
            /\ ~(PassActive(p, "watch") /\ PassActive(p, "initial")))

\* A watch cycle is at a record while the ledger already holds a record
\* relayed earlier.
C18_Witness ==
    \E p \in Platforms, s \in Slots :
        /\ phase[p] = "watching"
        /\ cycles[p][s].kind = "watch"
        /\ cycles[p][s].at = "pick"
        /\ mem[p] # {}


\* A step of syncer p is one that changes the state of its process or
\* its ledger file; a step of the engine one that changes the channel's
\* messages as the engine sees them, the engine's position or the status.
SyncerState(p) == <<phase[p], cycles[p], mem[p], disk[p], calls[p], run[p]>>
EngineState == <<src, eng, status>>

\* C19: a step of a syncer creates or changes no record file (it only
\* removes some), leaves the sync status as it is and touches no ledger
\* but its own; a step of the engine touches no syncer's ledger, in
\* memory or on disk.
C19_OwnershipFrame ==
    /\ [][\A p \in Platforms : SyncerState(p)' # SyncerState(p) =>
            /\ store' \subseteq store
            /\ status' = status
            /\ \A q \in Platforms \ {p} : disk'[q] = disk[q] /\ mem'[q] = mem[q]]_vars
    /\ [][EngineState' # EngineState => (disk' = disk /\ mem' = mem)]_vars

\* Both syncers have written their ledgers and one has removed a record
\* file of a message that is still in the channel.
C19_Witness ==
    /\ \A p \in Platforms : disk[p] # NoFile /\ mem[p] # {}
    /\ \E i \in Ids : src[i].st = "live" /\ ~HasFile(store, i)
    /\ EngineUp


\* C20: when SIGINT reaches a syncer whose handler is registered (it is
\* watching, or shutting down after a failed call), the process exits with
\* a ledger file from which a restart loads exactly the in-memory ledger.
C20_LedgerFlushedOnSigint ==
    [][\A p \in Platforms, o \in {"lost", "truncated", "written"} :
          (Sigint(p, o) /\ phase[p] \in {"watching", "stopping"})
              => LoadProcessedPosts(disk'[p]) = mem[p]]_vars


\* C21: an error while one message of a catch-up pass is processed does
\* not end the pass: the pass ends only after the whole list has been
\* visited, and with the completed status.
C21_PassSurvivesError ==
    eng.pc = "done" => (status = "completed" /\ eng.todo = <<>>)


\* C22: a pass that could not read a record file neither sends the record,
\* nor puts its id into the ledger, nor removes the file; a record a pass
\* could not read is sent later.
C22_UnreadableSkipped ==
    /\ [][\A p \in Platforms, s \in Slots : \A i \in cycles[p][s].unread :
            cycles'[p][s] # cycles[p][s] =>
                /\ calls'[p][i].sends = calls[p][i].sends
                /\ Has(mem'[p], i) = Has(mem[p], i)
                /\ HasFile(store, i) => HasFile(store', i)]_vars
    /\ \A p \in Platforms, i \in Ids :
          (i \in run[p].missed) ~> (calls[p][i].sends >= 1)

\* A record that a pass could not read has been sent and its file removed.
C22_Witness ==
    \E p \in Platforms, i \in Ids :
        /\ i \in run[p].missed
        /\ calls[p][i].sends >= 1
        /\ Has(mem[p], i)
        /\ ~HasFile(store, i)


\* C23: when the engine has started and has not yet begun a catch-up
\* pass, the status file is absent, whatever the previous run had left.
C23_ClearedOnStartup ==
    eng.pc = "ready" => status = "absent"

\* The engine has restarted after a run that left in_progress.
C23_Witness ==
    /\ eng.pc = "ready"
    /\ eng.cleared = "in_progress"
    /\ status = "absent"


\* C24: a syncer process whose main module finds a required value missing
\* or the connection test failed has exited without loading the ledger,
\* starting a wait or a pass, or issuing any call.
C24_AbortBeforeStart ==
    \A p \in Platforms :
        run[p].boot \in {"config", "connection"} =>
            /\ phase[p] = "aborted"
            /\ mem[p] = {}
            /\ cycles[p] = AllIdle
            /\ \A i \in CallIds : calls[p][i] = NoCalls

\* The process was stopped by its connection test while the directory
\* holds a record to relay.
C24_Witness ==
    \E p \in Platforms :
        /\ run[p].boot = "connection"
        /\ phase[p] = "aborted"
        /\ store # {}


WatchCycles(p) == {s \in Slots : cycles[p][s] # Idle /\ cycles[p][s].kind = "watch"}
Sending(p, s) == cycles[p][s].at = "call" /\ cycles[p][s].op = "send"

\* C25: within one syncer process no watch cycle starts while another is
\* suspended in a send, so no two watch cycles are sending the same record
\* at the same time.
C25_OneWatchCycle ==
    \A p \in Platforms : \A s \in WatchCycles(p), t \in WatchCycles(p) :
        (s # t /\ Sending(p, s) /\ Sending(p, t)) => Cur(p, s).id # Cur(p, t).id


\* The step in which slot s of syncer p issues a send.
IssuesSend(p, s) ==
    /\ cycles[p][s].at = "pick"
    /\ cycles'[p][s].at = "call"
    /\ cycles'[p][s].op = "send"

\* C26: over the whole life of a syncer no record is sent after a record
\* with a later source date has been sent by that syncer (here: by a
\* pass that runs alone, every earlier pass having returned).
C26_LifetimeOrder ==
    [][\A p \in Platforms, s \in Slots :
          (IssuesSend(p, s) /\ \A t \in Slots \ {s} : cycles[p][t] = Idle) =>
              \A j \in Ids : (calls[p][j].sends >= 1 /\ j # Cur(p, s).id)
                                 => SrcDate(j) <= DateKey(Cur(p, s))]_vars


\* C27: a message that Bale has delivered and whose deletion the running
\* engine has handled gets a delete call: once the directory is empty and
\* the syncer is watching with no cycle under way (nothing is left that
\* could make it act on the message), the call has been issued.
C27_DeleteIssued ==
    (/\ store = {}
     /\ phase["bale"] = "watching"
     /\ cycles["bale"] = AllIdle)
        => \A i \in Ids :
              (src[i].st = "deleted" /\ calls["bale"][i].sends >= 1)
                  => calls["bale"][i].deletes >= 1


\* C28: when a syncer removes a record file, the file holds the version
\* the removing pass has loaded and processed: a newer version written by
\* the engine meanwhile is not removed.
C28_RemovesOnlyProcessed ==
    [][\A r \in store :
          ~HasFile(store', r.id) =>
              \E p \in Platforms, s \in Slots :
                  /\ cycles[p][s].at \in {"pick", "persist"}
                  /\ cycles'[p][s] # cycles[p][s]
                  /\ Cur(p, s) = r]_vars


\* C29: a watching syncer with a pending record (not deleted, not in its
\* ledger) eventually starts a watch cycle or has the record off its hands,
\* also when the engine has stopped with the status at in_progress.
C29_WatchResumes ==
    \A p \in Platforms, i \in Ids :
        (/\ phase[p] = "watching"
         /\ cycles[p] = AllIdle
         /\ \E r \in store : r.id = i /\ ~r.deleted /\ ~Has(mem[p], i))
            ~> (\/ WatchCycles(p) # {}
                \/ Has(mem[p], i)
                \/ ~HasFile(store, i))


\* C30: a record the engine has written while the syncers are watching is
\* sent by every one of them: when the record file of a message is gone
\* and a syncer sits in its watch loop with no cycle under way (so that
\* it holds no copy of the record), that syncer has sent the record.
C30_NoSilentLoss ==
    \A p \in Platforms, i \in Ids :
        (/\ src[i].st = "live"
         /\ ~HasFile(store, i)
         /\ phase[p] = "watching"
         /\ cycles[p] = AllIdle)
            => calls[p][i].sends >= 1


\* C31: a step in which the call for a record raises leaves the ledger (in
\* memory and on disk), the record files and the media as they were; what
\* a syncer writes to its ledger file is never more than its in-memory
\* ledger; and an id enters the in-memory ledger of a running syncer only
\* in the step in which the action of some pass for that id has returned
\* without raising.
C31_FailedNotRecorded ==
    /\ [][\A p \in Platforms, s \in Slots :
            (PickRaise(p, s) \/ CallRaise(p, s))
                => UNCHANGED <<mem, disk, store, media>>]_vars
    /\ [][\A p \in Platforms :
            disk'[p] # disk[p] => LoadProcessedPosts(disk'[p]) \subseteq mem[p]]_vars
    /\ [][\A p \in Platforms, i \in Ids :
            (phase[p] # "init" /\ ~Has(mem[p], i) /\ Has(mem'[p], i))
                => \E s \in Slots :
                      /\ cycles[p][s].at \in {"pick", "call"}
                      /\ cycles[p][s].pos \in 1..Len(cycles[p][s].posts)
                      /\ Cur(p, s).id = i
                      /\ cycles'[p][s].at = "persist"]_vars

\* After a restart that followed a raising call, the catch-up has issued
\* the send for the same record again; its id is not in the ledger and its
\* file is still there.
C31_Witness ==
    \E p \in Platforms, s \in Slots :
        /\ run[p].prev # 0
        /\ cycles[p][s].kind = "initial"
        /\ Sending(p, s)
        /\ Cur(p, s).id = run[p].prev
        /\ calls[p][run[p].prev].sends = 2
        /\ ~Has(mem[p], run[p].prev)
        /\ HasFile(store, run[p].prev)


\* The message_id of the last call that returned one (none: NoMsgId).
RECURSIVE LastReturned(_)
LastReturned(c) ==
    IF c = <<>> THEN NoMsgId
    ELSE IF c[Len(c)].ret # NoMsgId THEN c[Len(c)].ret
    ELSE LastReturned(SubSeq(c, 1, Len(c) - 1))

BodyStep(p, s) ==
    /\ cycles[p][s].at = "pick"
    /\ cycles[p][s].pos \in 1..Len(cycles[p][s].posts)
    /\ cycles'[p][s] # cycles[p][s]
    /\ phase'[p] = phase[p]

\* C33: no send is issued for a record loaded with deleted = true; the
\* initial catch-up issues the send for a record exactly when the record is
\* not deleted and its id is not in the ledger, and otherwise passes it by
\* leaving files, media, ledger and calls as they were; a Bale watch cycle
\* at a deleted record whose id is not in the ledger issues no call, puts
\* the id into the ledger with deleted = true and then removes the record
\* file, keeping the media.
C33_TombstoneNotSent ==
    /\ [][\A p \in Platforms, s \in Slots :
            IssuesSend(p, s) => ~Cur(p, s).deleted]_vars
    /\ [][\A p \in Platforms, s \in Slots :
            (BodyStep(p, s) /\ cycles[p][s].kind = "initial") =>
                IF ~Cur(p, s).deleted /\ ~Has(mem[p], Cur(p, s).id)
                THEN IssuesSend(p, s)
                ELSE /\ cycles'[p][s].pos = cycles[p][s].pos + 1
                     /\ UNCHANGED <<store, media, mem, disk, calls>>]_vars
    /\ [][\A s \in Slots :
            (/\ BodyStep("bale", s)
             /\ cycles["bale"][s].kind = "watch"
             /\ Cur("bale", s).deleted
             /\ ~Has(mem["bale"], Cur("bale", s).id)) =>
                /\ calls' = calls
                /\ Has(mem'["bale"], Cur("bale", s).id)
                /\ Get(mem'["bale"], Cur("bale", s).id).deleted
                /\ cycles'["bale"][s].at = "persist"
                /\ cycles'["bale"][s].op = "removePost"]_vars
    /\ [][\A s \in Slots :
            (/\ cycles["bale"][s].at = "persist"
             /\ cycles["bale"][s].op = "removePost"
             /\ cycles'["bale"][s] # cycles["bale"][s]
             /\ phase'["bale"] = phase["bale"]) =>
                /\ ~HasFile(store', Cur("bale", s).id)
                /\ media' = media]_vars

\* A Bale watch cycle has recorded and removed the tombstone of a message
\* it had never relayed, without any call.
C33_Witness ==
    \E i \in Ids :
        /\ src[i].st = "deleted"
        /\ Has(mem["bale"], i)
        /\ Get(mem["bale"], i).deleted
        /\ Has(LoadProcessedPosts(disk["bale"]), i)
        /\ calls["bale"][i] = NoCalls
        /\ ~HasFile(store, i)
        /\ phase["bale"] = "watching"


\* C34: a Bale watch cycle at a record whose id is in the ledger with the
\* same editDate and the same deleted flag issues no call, leaves the
\* ledger (in memory and on disk) as it is, removes the record file and
\* keeps the media.
C34_UnchangedDropped ==
    [][\A s \in Slots :
          (/\ BodyStep("bale", s)
           /\ cycles["bale"][s].kind = "watch"
           /\ Has(mem["bale"], Cur("bale", s).id)
           /\ Get(mem["bale"], Cur("bale", s).id).editDate = Cur("bale", s).editDate
           /\ Get(mem["bale"], Cur("bale", s).id).deleted = Cur("bale", s).deleted) =>
              /\ calls' = calls
              /\ mem' = mem
              /\ disk' = disk
              /\ ~HasFile(store', Cur("bale", s).id)
              /\ media' = media]_vars

\* Bale had relayed message 2 and removed its record and media; the
\* engine's catch-up pass wrote both again; a watch cycle, alone, has now
\* removed the record: the media are still there and no second send was
\* issued.
C34_Witness ==
    /\ phase["bale"] = "watching"
    /\ calls["bale"][2].sends = 1
    /\ Has(mem["bale"], 2)
    /\ ~HasFile(store, 2)
    /\ 2 \in media
    /\ status = "completed"
    /\ \E s \in Slots :
         /\ cycles["bale"][s].kind = "watch"
         /\ cycles["bale"][s].at = "pick"
         /\ cycles["bale"][s].pos > 1
         /\ \A t \in Slots \ {s} : cycles["bale"][t] = Idle


\* The counter the loop body increments in this step (none: "none").
Counted ==
    LET d == [k \in DOMAIN PassCounters |-> eng'.count[k] - eng.count[k]] IN
    IF d = [PassCounters EXCEPT !.newPosts = 1] THEN "newPosts"
    ELSE IF d = [PassCounters EXCEPT !.updatedPosts = 1] THEN "updatedPosts"
    ELSE IF d = [PassCounters EXCEPT !.skippedPosts = 1] THEN "skippedPosts"
    ELSE "none"

\* C35: each iteration of the loop of syncLatestPosts increments exactly
\* one counter: newPosts iff there is no record file for the message's id
\* (its group's id), updatedPosts iff there is one and its editDate is not
\* the message's, skippedPosts otherwise; a skipped message leaves every
\* record and the media as they are.  The three counters add up to the
\* number of messages visited.
C35_Classification ==
    /\ [][(eng.pc = "pass" /\ eng.todo # <<>> /\ eng' # eng) =>
            LET m == Head(eng.todo)
                key == IF m.gid # 0 THEN GroupKey(m.gid) ELSE m.id IN
            /\ eng'.todo = Tail(eng.todo)
            /\ Counted = IF ~HasFile(store, key) THEN "newPosts"
                         ELSE IF FileOf(store, key).editDate # m.editDate
                              THEN "updatedPosts" ELSE "skippedPosts"
            /\ Counted = "skippedPosts" => (store' = store /\ media' = media)
            /\ Counted # "skippedPosts" => HasFile(store', key)]_vars
    /\ [](eng.pc \in {"pass", "done"} =>
            eng.count.newPosts + eng.count.updatedPosts + eng.count.skippedPosts
                = PassLen - Len(eng.todo))

\* A pass has ended with one message counted in each class, the skipped
\* one being a record whose stored text is not the message's.
C35_Witness ==
    /\ eng.pc = "done"
    /\ eng.count = [newPosts |-> 1, updatedPosts |-> 1, skippedPosts |-> 1]
    /\ \E r \in store : r \in eng.before /\ r.id \in 1..PassLen
                        /\ r.text # SrcHasText(r.id)
                        /\ r.editDate = src[PassLen + 1 - r.id].editDate
                        /\ src[PassLen + 1 - r.id].gid = 0


\* C36: a step of the catch-up loop that writes a record is taken while
\* the status file reads in_progress; from the return of the begin write
\* until the pass writes completed or failed the status stays in_progress;
\* and the begin write leaves in_progress whatever the file held.
C36_BeginPrecedesWrites ==
    /\ [][(PassStep /\ store' # store) =>
            (status = "in_progress" /\ status' = "in_progress")]_vars
    /\ [](eng.pc \in {"resolving", "pass"} => status = "in_progress")
    /\ [][(eng.pc \in {"ready", "begin"} /\ eng'.pc = "resolving")
            => status' = "in_progress"]_vars
    /\ [](\A st \in {"absent", "truncated", "in_progress", "completed", "failed"} :
            WriteInProgress(st) = "in_progress")

\* The pass has written the record of a message and has messages left.
C36_Witness ==
    /\ eng.pc = "pass"
    /\ Len(eng.todo) = 1
    /\ \A i \in Ids : src[i].st = "live"
    /\ HasFile(store, MaxId)
    /\ status = "in_progress"


\* C37: an id that the ledger file of a syncer holds is held by that file
\* after every step: deliveries, reconciliations, interrupts and restarts
\* only add entries or replace their metadata.
C37_LedgerMonotonic ==
    [][\A p \in Platforms, i \in Ids :
          Has(LoadProcessedPosts(disk[p]), i) => Has(LoadProcessedPosts(disk'[p]), i)]_vars


\* C38: once every message of the group has arrived, every wait is over
\* and no processMediaGroup call is under way (nothing more will happen to
\* the group), the buffer entry is removed and each message's id is in the
\* childMessages of the group's record.
C38_BufferResolved ==
    GroupSettled =>
        /\ eng.buf = <<>>
        /\ \A i \in eng.all : \E r \in GroupRecords : i \in Range(r.childMessages)


\* C39: when the loop of a pass reaches a record it is going to send and
\* the record has media, the media files are on disk: nothing has removed
\* them since the pass read the record.
C39_MediaPresentAtSend ==
    \A p \in Platforms, s \in Slots :
        (/\ Running(p)
         /\ cycles[p][s].at = "pick"
         /\ cycles[p][s].pos \in 1..Len(cycles[p][s].posts)
         /\ Cur(p, s).media > 0
         /\ CallOf(BranchAt(p, s), mem[p], Cur(p, s)) = "send")
            => Cur(p, s).id \in media


\* C40: a Bale watch cycle moves on from a record only with the record's
\* file removed, whatever the cached and the current editDate and deleted
\* flag are.
C40_StoreDrains ==
    [][\A s \in Slots :
          (/\ cycles["bale"][s].kind = "watch"
           /\ cycles["bale"][s].at \in {"pick", "persist"}
           /\ cycles["bale"][s].pos \in 1..Len(cycles["bale"][s].posts)
           /\ cycles'["bale"][s].kind = "watch"
           /\ cycles'["bale"][s].pos = cycles["bale"][s].pos + 1)
              => ~HasFile(store', Cur("bale", s).id)]_vars

====
